---- MODULE Spec2Model ----
(***************************************************************************)
(* Model of src/src/signature.rs (jwt-explorer): the signature-algorithm   *)
(* catalog SignatureTypes, its Display form, the resolver from_header, the *)
(* classifier class, and the signature engine calc_signature.              *)
(*                                                                         *)
(* Rust strings are TLA+ strings; a character is a string of length one.   *)
(* TLA+ strings hold printable ASCII only (and no backquote), so the model *)
(* covers the ASCII inputs of the program.                                 *)
(***************************************************************************)
EXTENDS Integers, Sequences, FiniteSets, TLC

VARIABLES op, args, ret

vars == <<op, args, ret>>

---------------------------------------------------------------------------
(* Strings: the std operations the source uses.                            *)

CharAt(s, i) == SubSeq(s, i, i)

\* the index of character c in the table string t, 0 when absent
IndexIn(t, c) ==
  IF \E i \in 1..Len(t) : CharAt(t, i) = c
  THEN CHOOSE i \in 1..Len(t) : CharAt(t, i) = c
  ELSE 0

LowerLetters == "abcdefghijklmnopqrstuvwxyz"
UpperLetters == "ABCDEFGHIJKLMNOPQRSTUVWXYZ"

\* char::to_uppercase on ASCII: a..z map to A..Z, everything else is kept
UpperChar(c) ==
  IF IndexIn(LowerLetters, c) > 0 THEN CharAt(UpperLetters, IndexIn(LowerLetters, c)) ELSE c

\* str::to_uppercase
RECURSIVE to_uppercase(_)
to_uppercase(s) ==
  IF Len(s) = 0 THEN ""
  ELSE UpperChar(CharAt(s, 1)) \o to_uppercase(SubSeq(s, 2, Len(s)))

\* str::contains with a string pattern: pat occurs as a substring of s
contains(s, pat) ==
  \E i \in 1..(Len(s) - Len(pat) + 1) : SubSeq(s, i, i + Len(pat) - 1) = pat

\* printable ASCII, codes 32..95 and 97..126 (a TLA+ string holds no backquote)
AsciiLo == " !\"#$%&'()*+,-./0123456789:;<=>?@ABCDEFGHIJKLMNOPQRSTUVWXYZ[\\]^_"
AsciiHi == "abcdefghijklmnopqrstuvwxyz{|}~"

\* the UTF-8 byte of an ASCII character
ByteOf(c) == IF IndexIn(AsciiLo, c) > 0 THEN 31 + IndexIn(AsciiLo, c) ELSE 96 + IndexIn(AsciiHi, c)

\* str::as_bytes
as_bytes(s) == [i \in 1..Len(s) |-> ByteOf(CharAt(s, i))]

---------------------------------------------------------------------------
(* enum SignatureTypes, in declaration order (EnumIter, Ord).              *)

Auto   == "SignatureTypes::Auto"
Retain == "SignatureTypes::Retain"
None   == "SignatureTypes::None"
Hs256  == "SignatureTypes::Hs256"
Hs384  == "SignatureTypes::Hs384"
Hs512  == "SignatureTypes::Hs512"

\* SignatureTypes::iter(): every variant, in declaration order
SignatureTypesIter == <<Auto, Retain, None, Hs256, Hs384, Hs512>>

SignatureTypes == {SignatureTypesIter[i] : i \in 1..Len(SignatureTypesIter)}

\* enum SignatureClass
Other  == "SignatureClass::Other"
Pubkey == "SignatureClass::Pubkey"
Hmac   == "SignatureClass::Hmac"

\* Option<T> and Result<T, E>
Some(x) == <<"Some", x>>
Absent  == <<"None">>
Ok(x)   == <<"Ok", x>>
Err(e)  == <<"Err", e>>

\* derive(Debug): format!("{:?}", s) is the variant's name
DebugFmt(sig) ==
  CASE sig = Auto   -> "Auto"
    [] sig = Retain -> "Retain"
    [] sig = None   -> "None"
    [] sig = Hs256  -> "Hs256"
    [] sig = Hs384  -> "Hs384"
    [] sig = Hs512  -> "Hs512"

\* Display with the Auto arm lost: every variant in upper case
Display_AllUpper(sig) == to_uppercase(DebugFmt(sig))

\* impl Display for SignatureTypes (to_string)
Display(sig) ==
  IF sig = Auto THEN "Auto" ELSE to_uppercase(DebugFmt(sig))

---------------------------------------------------------------------------
(* SignatureTypes::from_header                                             *)

\* the for loop with its break: the first variant from position i on whose
\* display form equals header, else ret as it stands
RECURSIVE FromHeaderLoop(_, _, _)
FromHeaderLoop(header, i, r) ==
  IF i > Len(SignatureTypesIter) THEN r
  ELSE IF header = Display(SignatureTypesIter[i]) THEN SignatureTypesIter[i]
  ELSE FromHeaderLoop(header, i + 1, r)

\* from_header comparing the header as written, not its upper-case form
from_header_AsWritten(alg) ==
  LET r == FromHeaderLoop(alg, 1, Auto)
  IN IF r = Auto THEN Absent ELSE Some(r)

\* from_header without the test of the Auto placeholder at its end
from_header_NoAutoTest(alg) == Some(FromHeaderLoop(to_uppercase(alg), 1, Auto))

from_header(alg) ==
  LET header == to_uppercase(alg)
      r == FromHeaderLoop(header, 1, Auto)
  IN IF r = Auto THEN Absent ELSE Some(r)

---------------------------------------------------------------------------
(* SignatureTypes::class                                                   *)

\* class with the scan of the header ahead of the match on the variant
class_ScanFirst(self, jwt_header) ==
  IF contains(jwt_header, "HS") \/ contains(jwt_header, "hs") THEN Hmac
  ELSE IF \/ contains(jwt_header, "RS")
          \/ contains(jwt_header, "rs")
          \/ contains(jwt_header, "ES")
          \/ contains(jwt_header, "es")
       THEN Pubkey
  ELSE IF self \in {Hs256, Hs384, Hs512} THEN Hmac
  ELSE Other

class(self, jwt_header) ==
  CASE self = None -> Other
    [] self \in {Hs256, Hs384, Hs512} -> Hmac
    [] self \in {Auto, Retain} ->
         IF contains(jwt_header, "HS") \/ contains(jwt_header, "hs") THEN Hmac
         ELSE IF \/ contains(jwt_header, "RS")
                 \/ contains(jwt_header, "rs")
                 \/ contains(jwt_header, "ES")
                 \/ contains(jwt_header, "es")
              THEN Pubkey
         ELSE Other

---------------------------------------------------------------------------
(* The sha2 crate's Sha256, Sha384 and Sha512 (FIPS 180-4).  A word is a   *)
(* tuple of 16-bit numbers, most significant first (two for a 32-bit word, *)
(* four for a 64-bit word); a byte string is a tuple of numbers 0..255.    *)

\* a function with domain 1..n as an explicit tuple
AsTuple(f) == f \o <<>>

\* bit i (0 the lowest) of the number a
Bit(a, i) == (a \div 2^i) % 2

\* xor and and of 4-bit numbers, tabulated: the entry of a, b is at [a + 1][b + 1]
Xor4 ==
  AsTuple([a \in 1..16 |-> AsTuple([b \in 1..16 |->
    8 * ((Bit(a - 1, 3) + Bit(b - 1, 3)) % 2) + 4 * ((Bit(a - 1, 2) + Bit(b - 1, 2)) % 2)
    + 2 * ((Bit(a - 1, 1) + Bit(b - 1, 1)) % 2) + ((Bit(a - 1, 0) + Bit(b - 1, 0)) % 2)])])

And4 ==
  AsTuple([a \in 1..16 |-> AsTuple([b \in 1..16 |->
    8 * Bit(a - 1, 3) * Bit(b - 1, 3) + 4 * Bit(a - 1, 2) * Bit(b - 1, 2)
    + 2 * Bit(a - 1, 1) * Bit(b - 1, 1) + Bit(a - 1, 0) * Bit(b - 1, 0)])])

\* a bitwise operation on 16-bit numbers, from its table on 4-bit numbers
Bitwise16(tab, a, b) ==
  4096 * tab[a \div 4096 + 1][b \div 4096 + 1]
  + 256 * tab[((a \div 256) % 16) + 1][((b \div 256) % 16) + 1]
  + 16 * tab[((a \div 16) % 16) + 1][((b \div 16) % 16) + 1]
  + tab[(a % 16) + 1][(b % 16) + 1]

\* bitwise operations on words
Xor(x, y) == AsTuple([j \in 1..Len(x) |-> Bitwise16(Xor4, x[j], y[j])])
And(x, y) == AsTuple([j \in 1..Len(x) |-> Bitwise16(And4, x[j], y[j])])
Not(x) == AsTuple([j \in 1..Len(x) |-> 65535 - x[j]])

\* x rotated right by n bits
RotR(x, n) ==
  LET m == Len(x)
      q == n \div 16
      r == n % 16
  IN AsTuple([j \in 1..m |->
       x[((j - 1 - q) % m) + 1] \div 2^r + (x[((j - 2 - q) % m) + 1] % 2^r) * 2^(16 - r)])

\* x shifted right by n bits
ShR(x, n) ==
  LET q == n \div 16
      r == n % 16
      limb(i) == IF i < 1 THEN 0 ELSE x[i]
  IN AsTuple([j \in 1..Len(x) |->
       limb(j - q) \div 2^r + (limb(j - q - 1) % 2^r) * 2^(16 - r)])

\* Sigma0, Sigma1: ROTR r1 xor ROTR r2 xor ROTR r3
BigSigma(x, r) == Xor(Xor(RotR(x, r[1]), RotR(x, r[2])), RotR(x, r[3]))

\* sigma0, sigma1: ROTR r1 xor ROTR r2 xor SHR r3
SmallSigma(x, r) == Xor(Xor(RotR(x, r[1]), RotR(x, r[2])), ShR(x, r[3]))

\* Ch(x, y, z) = (x and y) xor (not x and z)
Ch(x, y, z) == Xor(And(x, y), And(Not(x), z))

\* Maj(x, y, z) = (x and y) xor (x and z) xor (y and z)
Maj(x, y, z) == Xor(Xor(And(x, y), And(x, z)), And(y, z))

\* the sum of piece j of the first k words of ws
RECURSIVE ColSum(_, _, _)
ColSum(ws, j, k) == IF k = 0 THEN 0 ELSE ws[k][j] + ColSum(ws, j, k - 1)

\* pieces 1..j of the sum of the words ws, given the carry into piece j
RECURSIVE AddFrom(_, _, _)
AddFrom(ws, j, cin) ==
  LET s == cin + ColSum(ws, j, Len(ws))
  IN IF j = 1 THEN <<s % 65536>>
     ELSE Append(AddFrom(ws, j - 1, s \div 65536), s % 65536)

\* wrapping addition of the words ws (modulo 2^w)
Add(ws) == AddFrom(ws, Len(ws[1]), 0)

\* round constants and initial hash values (FIPS 180-4, 4.2.2, 4.2.3, 5.3.3 to 5.3.5)
K256 ==
  << <<\h428A, \h2F98>>, <<\h7137, \h4491>>, <<\hB5C0, \hFBCF>>, <<\hE9B5, \hDBA5>>,
     <<\h3956, \hC25B>>, <<\h59F1, \h11F1>>, <<\h923F, \h82A4>>, <<\hAB1C, \h5ED5>>,
     <<\hD807, \hAA98>>, <<\h1283, \h5B01>>, <<\h2431, \h85BE>>, <<\h550C, \h7DC3>>,
     <<\h72BE, \h5D74>>, <<\h80DE, \hB1FE>>, <<\h9BDC, \h06A7>>, <<\hC19B, \hF174>>,
     <<\hE49B, \h69C1>>, <<\hEFBE, \h4786>>, <<\h0FC1, \h9DC6>>, <<\h240C, \hA1CC>>,
     <<\h2DE9, \h2C6F>>, <<\h4A74, \h84AA>>, <<\h5CB0, \hA9DC>>, <<\h76F9, \h88DA>>,
     <<\h983E, \h5152>>, <<\hA831, \hC66D>>, <<\hB003, \h27C8>>, <<\hBF59, \h7FC7>>,
     <<\hC6E0, \h0BF3>>, <<\hD5A7, \h9147>>, <<\h06CA, \h6351>>, <<\h1429, \h2967>>,
     <<\h27B7, \h0A85>>, <<\h2E1B, \h2138>>, <<\h4D2C, \h6DFC>>, <<\h5338, \h0D13>>,
     <<\h650A, \h7354>>, <<\h766A, \h0ABB>>, <<\h81C2, \hC92E>>, <<\h9272, \h2C85>>,
     <<\hA2BF, \hE8A1>>, <<\hA81A, \h664B>>, <<\hC24B, \h8B70>>, <<\hC76C, \h51A3>>,
     <<\hD192, \hE819>>, <<\hD699, \h0624>>, <<\hF40E, \h3585>>, <<\h106A, \hA070>>,
     <<\h19A4, \hC116>>, <<\h1E37, \h6C08>>, <<\h2748, \h774C>>, <<\h34B0, \hBCB5>>,
     <<\h391C, \h0CB3>>, <<\h4ED8, \hAA4A>>, <<\h5B9C, \hCA4F>>, <<\h682E, \h6FF3>>,
     <<\h748F, \h82EE>>, <<\h78A5, \h636F>>, <<\h84C8, \h7814>>, <<\h8CC7, \h0208>>,
     <<\h90BE, \hFFFA>>, <<\hA450, \h6CEB>>, <<\hBEF9, \hA3F7>>, <<\hC671, \h78F2>> >>
H256 ==
  << <<\h6A09, \hE667>>, <<\hBB67, \hAE85>>, <<\h3C6E, \hF372>>, <<\hA54F, \hF53A>>,
     <<\h510E, \h527F>>, <<\h9B05, \h688C>>, <<\h1F83, \hD9AB>>, <<\h5BE0, \hCD19>> >>
K512 ==
  << <<\h428A, \h2F98, \hD728, \hAE22>>, <<\h7137, \h4491, \h23EF, \h65CD>>,
     <<\hB5C0, \hFBCF, \hEC4D, \h3B2F>>, <<\hE9B5, \hDBA5, \h8189, \hDBBC>>,
     <<\h3956, \hC25B, \hF348, \hB538>>, <<\h59F1, \h11F1, \hB605, \hD019>>,
     <<\h923F, \h82A4, \hAF19, \h4F9B>>, <<\hAB1C, \h5ED5, \hDA6D, \h8118>>,
     <<\hD807, \hAA98, \hA303, \h0242>>, <<\h1283, \h5B01, \h4570, \h6FBE>>,
     <<\h2431, \h85BE, \h4EE4, \hB28C>>, <<\h550C, \h7DC3, \hD5FF, \hB4E2>>,
     <<\h72BE, \h5D74, \hF27B, \h896F>>, <<\h80DE, \hB1FE, \h3B16, \h96B1>>,
     <<\h9BDC, \h06A7, \h25C7, \h1235>>, <<\hC19B, \hF174, \hCF69, \h2694>>,
     <<\hE49B, \h69C1, \h9EF1, \h4AD2>>, <<\hEFBE, \h4786, \h384F, \h25E3>>,
     <<\h0FC1, \h9DC6, \h8B8C, \hD5B5>>, <<\h240C, \hA1CC, \h77AC, \h9C65>>,
     <<\h2DE9, \h2C6F, \h592B, \h0275>>, <<\h4A74, \h84AA, \h6EA6, \hE483>>,
     <<\h5CB0, \hA9DC, \hBD41, \hFBD4>>, <<\h76F9, \h88DA, \h8311, \h53B5>>,
     <<\h983E, \h5152, \hEE66, \hDFAB>>, <<\hA831, \hC66D, \h2DB4, \h3210>>,
     <<\hB003, \h27C8, \h98FB, \h213F>>, <<\hBF59, \h7FC7, \hBEEF, \h0EE4>>,
     <<\hC6E0, \h0BF3, \h3DA8, \h8FC2>>, <<\hD5A7, \h9147, \h930A, \hA725>>,
     <<\h06CA, \h6351, \hE003, \h826F>>, <<\h1429, \h2967, \h0A0E, \h6E70>>,
     <<\h27B7, \h0A85, \h46D2, \h2FFC>>, <<\h2E1B, \h2138, \h5C26, \hC926>>,
     <<\h4D2C, \h6DFC, \h5AC4, \h2AED>>, <<\h5338, \h0D13, \h9D95, \hB3DF>>,
     <<\h650A, \h7354, \h8BAF, \h63DE>>, <<\h766A, \h0ABB, \h3C77, \hB2A8>>,
     <<\h81C2, \hC92E, \h47ED, \hAEE6>>, <<\h9272, \h2C85, \h1482, \h353B>>,
     <<\hA2BF, \hE8A1, \h4CF1, \h0364>>, <<\hA81A, \h664B, \hBC42, \h3001>>,
     <<\hC24B, \h8B70, \hD0F8, \h9791>>, <<\hC76C, \h51A3, \h0654, \hBE30>>,
     <<\hD192, \hE819, \hD6EF, \h5218>>, <<\hD699, \h0624, \h5565, \hA910>>,
     <<\hF40E, \h3585, \h5771, \h202A>>, <<\h106A, \hA070, \h32BB, \hD1B8>>,
     <<\h19A4, \hC116, \hB8D2, \hD0C8>>, <<\h1E37, \h6C08, \h5141, \hAB53>>,
     <<\h2748, \h774C, \hDF8E, \hEB99>>, <<\h34B0, \hBCB5, \hE19B, \h48A8>>,
     <<\h391C, \h0CB3, \hC5C9, \h5A63>>, <<\h4ED8, \hAA4A, \hE341, \h8ACB>>,
     <<\h5B9C, \hCA4F, \h7763, \hE373>>, <<\h682E, \h6FF3, \hD6B2, \hB8A3>>,
     <<\h748F, \h82EE, \h5DEF, \hB2FC>>, <<\h78A5, \h636F, \h4317, \h2F60>>,
     <<\h84C8, \h7814, \hA1F0, \hAB72>>, <<\h8CC7, \h0208, \h1A64, \h39EC>>,
     <<\h90BE, \hFFFA, \h2363, \h1E28>>, <<\hA450, \h6CEB, \hDE82, \hBDE9>>,
     <<\hBEF9, \hA3F7, \hB2C6, \h7915>>, <<\hC671, \h78F2, \hE372, \h532B>>,
     <<\hCA27, \h3ECE, \hEA26, \h619C>>, <<\hD186, \hB8C7, \h21C0, \hC207>>,
     <<\hEADA, \h7DD6, \hCDE0, \hEB1E>>, <<\hF57D, \h4F7F, \hEE6E, \hD178>>,
     <<\h06F0, \h67AA, \h7217, \h6FBA>>, <<\h0A63, \h7DC5, \hA2C8, \h98A6>>,
     <<\h113F, \h9804, \hBEF9, \h0DAE>>, <<\h1B71, \h0B35, \h131C, \h471B>>,
     <<\h28DB, \h77F5, \h2304, \h7D84>>, <<\h32CA, \hAB7B, \h40C7, \h2493>>,
     <<\h3C9E, \hBE0A, \h15C9, \hBEBC>>, <<\h431D, \h67C4, \h9C10, \h0D4C>>,
     <<\h4CC5, \hD4BE, \hCB3E, \h42B6>>, <<\h597F, \h299C, \hFC65, \h7E2A>>,
     <<\h5FCB, \h6FAB, \h3AD6, \hFAEC>>, <<\h6C44, \h198C, \h4A47, \h5817>> >>
H512 ==
  << <<\h6A09, \hE667, \hF3BC, \hC908>>, <<\hBB67, \hAE85, \h84CA, \hA73B>>,
     <<\h3C6E, \hF372, \hFE94, \hF82B>>, <<\hA54F, \hF53A, \h5F1D, \h36F1>>,
     <<\h510E, \h527F, \hADE6, \h82D1>>, <<\h9B05, \h688C, \h2B3E, \h6C1F>>,
     <<\h1F83, \hD9AB, \hFB41, \hBD6B>>, <<\h5BE0, \hCD19, \h137E, \h2179>> >>
H384 ==
  << <<\hCBBB, \h9D5D, \hC105, \h9ED8>>, <<\h629A, \h292A, \h367C, \hD507>>,
     <<\h9159, \h015A, \h3070, \hDD17>>, <<\h152F, \hECD8, \hF70E, \h5939>>,
     <<\h6733, \h2667, \hFFC0, \h0B31>>, <<\h8EB4, \h4A87, \h6858, \h1511>>,
     <<\hDB0C, \h2E0D, \h64F9, \h8FA7>>, <<\h47B5, \h481D, \hBEFA, \h4FA4>> >>

\* the parameters of one hash function: word size, number of rounds, round
\* constants, initial hash value, the rotation and shift amounts of the four
\* sigma functions, and the digest length in bytes
Sha256 ==
  [w |-> 32, rounds |-> 64, k |-> K256, iv |-> H256,
   S0 |-> <<2, 13, 22>>, S1 |-> <<6, 11, 25>>,
   s0 |-> <<7, 18, 3>>, s1 |-> <<17, 19, 10>>,
   out |-> 32]

Sha512 ==
  [w |-> 64, rounds |-> 80, k |-> K512, iv |-> H512,
   S0 |-> <<28, 34, 39>>, S1 |-> <<14, 18, 41>>,
   s0 |-> <<1, 8, 7>>, s1 |-> <<19, 61, 6>>,
   out |-> 64]

\* SHA-384 is SHA-512 with its own initial hash value, cut to 48 bytes
Sha384 == [Sha512 EXCEPT !.iv = H384, !.out = 48]

\* the message schedule ws, of t - 1 words, extended by W_t
NextW(p, ws) ==
  LET t == Len(ws) + 1
  IN Append(ws, Add(<<SmallSigma(ws[t - 2], p.s1), ws[t - 7],
                      SmallSigma(ws[t - 15], p.s0), ws[t - 16]>>))

\* ws extended by n more words (by halves: the evaluation stays shallow)
RECURSIVE Extend(_, _, _)
Extend(p, ws, n) ==
  IF Len(ws) = 0 \/ n = 0 THEN ws
  ELSE IF n = 1 THEN NextW(p, ws)
  ELSE Extend(p, Extend(p, ws, n \div 2), n - n \div 2)

\* the message schedule of a block of 16 words
Schedule(p, block) == Extend(p, block, p.rounds - 16)

\* one round: the working variables <<a, b, c, d, e, f, g, h>> after it
Round(p, s, kt, wt) ==
  LET T1 == Add(<<s[8], BigSigma(s[5], p.S1), Ch(s[5], s[6], s[7]), kt, wt>>)
      T2 == Add(<<BigSigma(s[1], p.S0), Maj(s[1], s[2], s[3])>>)
  IN <<Add(<<T1, T2>>), s[1], s[2], s[3], Add(<<s[4], T1>>), s[5], s[6], s[7]>>

\* rounds lo..hi in order (by halves; the test of Len(s) has s evaluated
\* before the later rounds start)
RECURSIVE Rounds(_, _, _, _, _)
Rounds(p, s, ws, lo, hi) ==
  IF Len(s) # 8 THEN s
  ELSE IF lo = hi THEN Round(p, s, p.k[lo], ws[lo])
  ELSE LET mid == (lo + hi) \div 2
       IN Rounds(p, Rounds(p, s, ws, lo, mid), ws, mid + 1, hi)

\* the compression function: the hash value h after one block
Compress(p, h, block) ==
  LET ws == Schedule(p, block)
      s == Rounds(p, h, ws, 1, p.rounds)
  IN AsTuple([i \in 1..8 |-> Add(<<h[i], s[i]>>)])

Zeros(n) == [i \in 1..n |-> 0]

\* the number n (below 2^31) as len big-endian bytes
BigEndian(n, len) ==
  [i \in 1..len |-> IF len - i > 3 THEN 0 ELSE (n \div 256^(len - i)) % 256]

\* padding: a 1 bit, zeros, and the length in bits, up to a whole block
Pad(p, msg) ==
  LET blk == p.w * 2
      lenf == p.w \div 4
      z == (blk - ((Len(msg) + 1 + lenf) % blk)) % blk
  IN msg \o <<128>> \o Zeros(z) \o BigEndian(Len(msg) * 8, lenf)

\* the words of a byte string, and the bytes of a tuple of words
BytesToWords(p, bs) ==
  LET m == p.w \div 16
  IN AsTuple([i \in 1..Len(bs) \div (2 * m) |->
       AsTuple([j \in 1..m |-> 256 * bs[2 * m * (i - 1) + 2 * j - 1] + bs[2 * m * (i - 1) + 2 * j]])])

WordsToBytes(p, ws) ==
  LET m == p.w \div 16
  IN AsTuple([i \in 1..2 * m * Len(ws) |->
       LET piece == ws[((i - 1) \div (2 * m)) + 1][(((i - 1) % (2 * m)) \div 2) + 1]
       IN IF i % 2 = 1 THEN piece \div 256 ELSE piece % 256])

\* the hash value after blocks n, n + 1, ... of the padded message
RECURSIVE Blocks(_, _, _, _)
Blocks(p, h, bytes, n) ==
  LET blk == p.w * 2
  IN IF Len(h) # 8 \/ (n - 1) * blk >= Len(bytes) THEN h
     ELSE Blocks(p, Compress(p, h, BytesToWords(p, SubSeq(bytes, (n - 1) * blk + 1, n * blk))),
                 bytes, n + 1)

\* Digest: the hash of the byte string msg
Digest(p, msg) == SubSeq(WordsToBytes(p, Blocks(p, p.iv, Pad(p, msg), 1)), 1, p.out)

---------------------------------------------------------------------------
(* The hmac crate's Hmac<D> (RFC 2104).                                    *)

XorBytes(bs, c) == AsTuple([i \in 1..Len(bs) |-> Bitwise16(Xor4, bs[i], c)])

\* Hmac::<D>::new_from_slice: a key longer than a block is hashed, then the
\* key is padded with zeros to a block; every key length is accepted
new_from_slice(p, key) ==
  LET blk == p.w * 2
      k0 == IF Len(key) > blk THEN Digest(p, key) ELSE key
  IN Ok([hash |-> p, key |-> k0 \o Zeros(blk - Len(k0)), data |-> <<>>])

\* Mac::update
update(mac, data) == [mac EXCEPT !.data = @ \o data]

\* Mac::finalize().into_bytes(): H((key xor opad) || H((key xor ipad) || data))
finalize(mac) ==
  Digest(mac.hash, XorBytes(mac.key, 92) \o Digest(mac.hash, XorBytes(mac.key, 54) \o mac.data))

---------------------------------------------------------------------------
(* base64::encode_config(bytes, URL_SAFE_NO_PAD) (RFC 4648, section 5).    *)

UrlSafeAlphabet == "ABCDEFGHIJKLMNOPQRSTUVWXYZabcdefghijklmnopqrstuvwxyz0123456789-_"

Base64Char(n) == CharAt(UrlSafeAlphabet, n + 1)

\* three bytes give four characters; a last group of one or two bytes gives
\* two or three, and no padding character follows
RECURSIVE encode_config(_)
encode_config(bs) ==
  IF Len(bs) = 0 THEN ""
  ELSE IF Len(bs) = 1
       THEN Base64Char(bs[1] \div 4) \o Base64Char((bs[1] % 4) * 16)
  ELSE IF Len(bs) = 2
       THEN Base64Char(bs[1] \div 4) \o Base64Char((bs[1] % 4) * 16 + bs[2] \div 16)
            \o Base64Char((bs[2] % 16) * 4)
  ELSE IF Len(bs) = 3
       THEN Base64Char(bs[1] \div 4) \o Base64Char((bs[1] % 4) * 16 + bs[2] \div 16)
            \o Base64Char((bs[2] % 16) * 4 + bs[3] \div 64) \o Base64Char(bs[3] % 64)
  ELSE LET h == 3 * ((Len(bs) + 5) \div 6)
       IN encode_config(SubSeq(bs, 1, h)) \o encode_config(SubSeq(bs, h + 1, Len(bs)))

---------------------------------------------------------------------------
(* calc_signature                                                          *)

\* one HMAC arm: new_from_slice(secret)?, update(payload), finalize, encode
HmacArm(p, payload, secret) ==
  LET mac == new_from_slice(p, as_bytes(secret))
  IN IF mac[1] = "Err" THEN Err(mac[2])
     ELSE Ok(encode_config(finalize(update(mac[2], as_bytes(payload)))))

\* calc_signature with the Hs384 arm a copy of the Hs512 arm
calc_signature_Hs384AsHs512(payload, secret, original_signature, hash_type) ==
  CASE hash_type = Retain -> Ok(original_signature)
    [] hash_type = Hs256 -> HmacArm(Sha256, payload, secret)
    [] hash_type = Hs384 -> HmacArm(Sha512, payload, secret)
    [] hash_type = Hs512 -> HmacArm(Sha512, payload, secret)
    [] hash_type = None -> Ok("")
    [] OTHER -> Err("Unrecognised signature type: " \o Display(hash_type))

\* calc_signature with the Retain arm giving the empty signature
calc_signature_RetainEmpty(payload, secret, original_signature, hash_type) ==
  CASE hash_type = Retain -> Ok("")
    [] hash_type = Hs256 -> HmacArm(Sha256, payload, secret)
    [] hash_type = Hs384 -> HmacArm(Sha384, payload, secret)
    [] hash_type = Hs512 -> HmacArm(Sha512, payload, secret)
    [] hash_type = None -> Ok("")
    [] OTHER -> Err("Unrecognised signature type: " \o Display(hash_type))

\* calc_signature with the None arm passing the original signature on
calc_signature_NoneRetains(payload, secret, original_signature, hash_type) ==
  CASE hash_type = Retain -> Ok(original_signature)
    [] hash_type = Hs256 -> HmacArm(Sha256, payload, secret)
    [] hash_type = Hs384 -> HmacArm(Sha384, payload, secret)
    [] hash_type = Hs512 -> HmacArm(Sha512, payload, secret)
    [] hash_type = None -> Ok(original_signature)
    [] OTHER -> Err("Unrecognised signature type: " \o Display(hash_type))

calc_signature(payload, secret, original_signature, hash_type) ==
  CASE hash_type = Retain -> Ok(original_signature)
    [] hash_type = Hs256 -> HmacArm(Sha256, payload, secret)
    [] hash_type = Hs384 -> HmacArm(Sha384, payload, secret)
    [] hash_type = Hs512 -> HmacArm(Sha512, payload, secret)
    [] hash_type = None -> Ok("")
    [] OTHER -> Err("Unrecognised signature type: " \o Display(hash_type))

---------------------------------------------------------------------------
(* The inputs the callers are given.                                       *)

\* the longest header string drawn from HeaderAlphabet
MaxLen == 3

\* the letters of the family markers HS, RS and ES in both cases, and a digit
HeaderAlphabet == {"H", "h", "S", "s", "R", "r", "E", "e", "2"}

\* every string over alphabet of at most n characters
RECURSIVE Strings(_, _)
Strings(alphabet, n) ==
  IF n = 0 THEN {""}
  ELSE {""} \cup {c \o s : c \in alphabet, s \in Strings(alphabet, n - 1)}

\* char::to_lowercase on ASCII
LowerChar(c) ==
  IF IndexIn(UpperLetters, c) > 0 THEN CharAt(LowerLetters, IndexIn(UpperLetters, c)) ELSE c

\* every letter-casing of s
RECURSIVE Casings(_)
Casings(s) ==
  IF Len(s) = 0 THEN {""}
  ELSE {c \o t : c \in {UpperChar(CharAt(s, 1)), LowerChar(CharAt(s, 1))},
                 t \in Casings(SubSeq(s, 2, Len(s)))}

\* the alg strings of the headers: every casing of every variant's display
\* form, names outside the catalog, and every short string of marker letters
HeaderAlgs ==
  UNION {Casings(Display(SignatureTypesIter[i])) : i \in 1..Len(SignatureTypesIter)}
    \cup {"NOPE", "XYZ", "RS256", "Rs256", "ES256", "PS256", "HS256x", "ERS"}
    \cup Strings(HeaderAlphabet, MaxLen)

\* the signing inputs of the tests hs256, hs384 and hs512
PayloadHs256 == "eyJhbGciOiJIUzI1NiIsInR5cGUiOiJKV1QifQ.eyJoZWxsbyI6IndvcmxkIn0"
PayloadHs384 == "eyJhbGciOiJIUzM4NCIsInR5cGUiOiJKV1QifQ.eyJoZWxsbyI6IndvcmxkIn0"
PayloadHs512 == "eyJhbGciOiJIUzUxMiIsInR5cGUiOiJKV1QifQ.eyJoZWxsbyI6IndvcmxkIn0"

Payloads == {"", PayloadHs256, PayloadHs384, PayloadHs512}

Secrets == {"", "password"}

OriginalSignatures == {"", "c2ln"}

---------------------------------------------------------------------------
(* The caller: it is idle, calls one of the three functions with arguments *)
(* of its choice, holds the value returned, and drops it.  The functions   *)
(* keep no state of their own.                                             *)

Init ==
  /\ op = "idle"
  /\ args = <<>>
  /\ ret = <<>>

FromHeader ==
  /\ op = "idle"
  /\ \E alg \in HeaderAlgs :
       /\ op' = "from_header"
       /\ args' = [alg |-> alg]
       /\ ret' = from_header(alg)

Class ==
  /\ op = "idle"
  /\ \E self \in SignatureTypes, jwt_header \in HeaderAlgs :
       /\ op' = "class"
       /\ args' = [self |-> self, jwt_header |-> jwt_header]
       /\ ret' = class(self, jwt_header)

CalcSignature ==
  /\ op = "idle"
  /\ \E payload \in Payloads, secret \in Secrets,
        original_signature \in OriginalSignatures, hash_type \in SignatureTypes :
       /\ op' = "calc_signature"
       /\ args' = [payload |-> payload, secret |-> secret,
                   original_signature |-> original_signature, hash_type |-> hash_type]
       /\ ret' = calc_signature(payload, secret, original_signature, hash_type)

Return ==
  /\ op # "idle"
  /\ op' = "idle"
  /\ args' = <<>>
  /\ ret' = <<>>

Next == FromHeader \/ Class \/ Return \/ CalcSignature

Spec == Init /\ [][Next]_vars

---------------------------------------------------------------------------
(* Properties.                                                             *)

HmacTypes == {Hs256, Hs384, Hs512}

\* the canonical textual form of each variant a header can name
CanonicalText(sig) ==
  CASE sig = Retain -> "RETAIN"
    [] sig = None   -> "NONE"
    [] sig = Hs256  -> "HS256"
    [] sig = Hs384  -> "HS384"
    [] sig = Hs512  -> "HS512"

\* s is canon in some letter-casing (canon is in upper case)
IsCasingOf(s, canon) ==
  /\ Len(s) = Len(canon)
  /\ \A i \in 1..Len(canon) :
       CharAt(s, i) \in {CharAt(canon, i), LowerChar(CharAt(canon, i))}

\* s contains the two-letter marker in some letter-casing
ContainsAnyCase(s, marker) ==
  \E i \in 1..(Len(s) - 1) : IsCasingOf(SubSeq(s, i, i + 1), marker)

\* the expected values of the tests hs256, hs384 and hs512:
\* <<algorithm, secret, signing input, signature>>
TestVectors ==
  { <<Hs256, "password", PayloadHs256, "jW6hG22ajnhgpvKKvkWUVI8CYobL7DOdmp6KlGYAfZ8">>,
    <<Hs384, "password", PayloadHs384,
      "atUQ3QNbGaBYU27YAs-Bc9nmkGyUDqb8PM_Qg8THWWcaaIU9S5U8WlvDe6restjn">>,
    <<Hs512, "password", PayloadHs512,
      "V4-Fm9ukreVKpfGf3Yxs9p-thbDvGWlRcPBXdE7qrEWu1CeP"
       \o "OFoXJZixJxmCDKGF_A8UgaObbw4biMgEeiEzZQ">> }

\* reference values of the unpadded URL-safe base64 of HMAC-SHA-256/384/512
\* (RFC 2104, FIPS 180-4, RFC 4648) for every secret and signing input of the
\* model, from an independent implementation (Python's hmac and base64):
\* <<algorithm, secret, signing input, signature>>
ReferenceMacs ==
  {
    <<Hs256, "password", PayloadHs256,
      "jW6hG22ajnhgpvKKvkWUVI8CYobL7DOdmp6KlGYAfZ8">>,
    <<Hs256, "password", PayloadHs384,
      "ZRFjY_Qj9YyYyizReFWocCYIffhB_654rLt-2YLyUTc">>,
    <<Hs256, "password", PayloadHs512,
      "lqNcmjuAsTLA8mRk89J9fiZI699cxSJiI3j1ylr7neE">>,
    <<Hs256, "password", "",
      "5Woges0eZxRzVIfBmcbwlYRLfMjllx2GwAOntvNu9R4">>,
    <<Hs256, "", PayloadHs256,
      "22OJqGDswFofhi0b7NuVEYsfMbuJATc65gpdesRxLGk">>,
    <<Hs256, "", PayloadHs384,
      "h37o0W4W45Fhdbq2USsaPk5GHGnZb7yY5OMnt0i4Ngo">>,
    <<Hs256, "", PayloadHs512,
      "5WYoLoFsD93burRWo9EdWJmcA-3MqVk6qFAoSahGjwA">>,
    <<Hs256, "", "",
      "thNnmggU2ex3L5XXeMNfxf8Wl8STcVZTxscSFEKSxa0">>,
    <<Hs384, "password", PayloadHs256,
      "48ehFM_bd-3-EPEo2-V22xcfPxfBoBHOTsMBBXhcQYtC28iNJIt3reccBeX0uYr2">>,
    <<Hs384, "password", PayloadHs384,
      "atUQ3QNbGaBYU27YAs-Bc9nmkGyUDqb8PM_Qg8THWWcaaIU9S5U8WlvDe6restjn">>,
    <<Hs384, "password", PayloadHs512,
      "cXIsWnZ14K6Hfq4LCy-4oYoy9S0UNA9WooEwbnGuXzG1ajviNye3zbEkUx8unOC2">>,
    <<Hs384, "password", "",
      "TL0OdOfavpEKiSpu2A9TuRmlgWaznxUeBZoRQMMlBpG_g2j5ECQxALQzvO3nNI3u">>,
    <<Hs384, "", PayloadHs256,
      "YuzXLJhQZQA0FKYLNX5BZOkQIjO7HEQNrQU_yLaJMDze1ph0vyl-cGJbvZ79YNNA">>,
    <<Hs384, "", PayloadHs384,
      "aSly6gLeao0KgrxZLCD9MoqTDTeZ-s1q-SScW_nES4Lagf5C48Yuxs8Zfy2koogN">>,
    <<Hs384, "", PayloadHs512,
      "Y4cWzFIIYTc4RqCMAZoREJ8eXOtfL5iawEIpICOeejERGLF94Z5--fZnsLeDdyNT">>,
    <<Hs384, "", "",
      "bB8u6Tj60uJL2RKYR0OCyiGMdds9g-EUs9Q2d3bRTTVRKJ516CCc1LeSMChAI0rc">>,
    <<Hs512, "password", PayloadHs256,
      "UPJXfzaD3qQr1a_cnPA-YNoh_g34mCeZec4jt5e6_BaWCWhY"
       \o "jx1gWvwLlJ6u63hNULeeOxYkeMuux9b4U6GeXA">>,
    <<Hs512, "password", PayloadHs384,
      "tiSOI5XMqu9SlbCSb0X1RHxo7Pa1GCAtwlfqIlkOyJk6gS5b"
       \o "_dHYY0oCIXSrwboxsa2JYpIdLOxNrRX_5ZIg-Q">>,
    <<Hs512, "password", PayloadHs512,
      "V4-Fm9ukreVKpfGf3Yxs9p-thbDvGWlRcPBXdE7qrEWu1CeP"
       \o "OFoXJZixJxmCDKGF_A8UgaObbw4biMgEeiEzZQ">>,
    <<Hs512, "password", "",
      "3tG9opBYwC8BHAEIfhJUNoSCHFTUKsKpkkoaDuEIMLWiAoqQ"
       \o "_rwM2lGIUXvHmuzb1yCwCJUYFXFJboaIxX3foA">>,
    <<Hs512, "", PayloadHs256,
      "QsWAyVs9-4jYO4qPWVsywPnUeqjCqQ5ZZOn-M7rD0yLDKn2j"
       \o "0MTxxqtVhcVFc_6WXnJMFwe7WFVv5l4trndCFg">>,
    <<Hs512, "", PayloadHs384,
      "KRv09SQlbjhTNOgWkC-7kygVqLg6rkSAjps9ZBcAm2WRjABY"
       \o "h1Xhwi-Z_WW0hAr_-YB7mTezS3CxMGTAC3EIhw">>,
    <<Hs512, "", PayloadHs512,
      "wliM24bZCcmDXMRF_jHO45KtUkmA_X31In3OIW78i4TbYlyM"
       \o "T9lnUZfk3Zg_drIeFSby0ON8CPMKCqdVrqC6OQ">>,
    <<Hs512, "", "",
      "uTbO6Gyfh6pdPG8uhMtaQjml_lBICm7Ga3CrWx9KxnMMbFFU"
       \o "IbMn7B1pQC5T37Sa1zgesGezOP17DLIiRyJdRw">>
  }

\* C1: with HS256, HS384 or HS512, calc_signature returns Ok of the unpadded
\* URL-safe base64 of the HMAC (SHA-256/384/512) of the signing input keyed by
\* the secret, the empty secret included, whatever the original signature is;
\* the three vectors of the tests hold.
C1_HmacSignature ==
  (op = "calc_signature" /\ args.hash_type \in HmacTypes) =>
    /\ ret[1] = "Ok"
    /\ <<args.hash_type, args.secret, args.payload, ret[2]>> \in ReferenceMacs
    /\ \A v \in TestVectors :
         (args.hash_type = v[1] /\ args.secret = v[2] /\ args.payload = v[3]) => ret = Ok(v[4])

\* the test hs256 has run, with an original signature that is not empty
C1_Witness ==
  /\ op = "calc_signature"
  /\ args = [payload |-> PayloadHs256, secret |-> "password",
             original_signature |-> "c2ln", hash_type |-> Hs256]
  /\ ret = Ok("jW6hG22ajnhgpvKKvkWUVI8CYobL7DOdmp6KlGYAfZ8")

\* C2: with Retain, calc_signature returns Ok of the original signature
\* verbatim, for every signing input and secret, and never an error.
C2_RetainVerbatim ==
  (op = "calc_signature" /\ args.hash_type = Retain) => ret = Ok(args.original_signature)

C2_Witness ==
  /\ op = "calc_signature"
  /\ args.hash_type = Retain
  /\ args.payload = PayloadHs256
  /\ args.secret = "password"
  /\ args.original_signature = "c2ln"
  /\ ret = Ok("c2ln")

\* C3: with an identifier outside Retain, None, HS256, HS384, HS512 (Auto),
\* calc_signature returns the error "Unrecognised signature type: Auto" and
\* never an Ok value.
C3_UnrecognisedIsError ==
  (op = "calc_signature" /\ args.hash_type \notin {Retain, None, Hs256, Hs384, Hs512}) =>
    ret = Err("Unrecognised signature type: Auto")

C3_Witness ==
  /\ op = "calc_signature"
  /\ args.hash_type = Auto
  /\ args.payload = PayloadHs256
  /\ args.secret = "password"
  /\ args.original_signature = "c2ln"
  /\ ret[1] = "Err"

\* C4: a header whose alg is the canonical text of Retain, None, HS256, HS384
\* or HS512 in any letter-casing resolves to Some of exactly that identifier.
C4_ResolverAnyCasing ==
  op = "from_header" =>
    \A sig \in SignatureTypes \ {Auto} :
      IsCasingOf(args.alg, CanonicalText(sig)) => ret = Some(sig)

C4_Witness ==
  /\ op = "from_header"
  /\ args.alg = "rEtAiN"
  /\ ret = Some(Retain)

\* C5: from_header never returns Some(Auto); "Auto" in any letter-casing, and
\* every string that is not the canonical text of a non-Auto identifier in some
\* letter-casing, resolves to the absence value.
C5_ResolverExcludesAuto ==
  op = "from_header" =>
    /\ ret # Some(Auto)
    /\ IsCasingOf(args.alg, "AUTO") => ret = Absent
    /\ (\A sig \in SignatureTypes \ {Auto} : ~IsCasingOf(args.alg, CanonicalText(sig)))
         => ret = Absent

C5_Witness ==
  /\ op = "from_header"
  /\ args.alg = "Auto"
  /\ ret = Absent

\* C6: with Auto or Retain, class scans the header case-insensitively: Hmac if
\* it contains HS in any letter-casing (mixed ones included), otherwise Pubkey
\* if it contains RS or ES in any letter-casing, otherwise Other.
C6_ScanAnyCasing ==
  (op = "class" /\ args.self \in {Auto, Retain}) =>
    ret = IF ContainsAnyCase(args.jwt_header, "HS") THEN Hmac
          ELSE IF \/ ContainsAnyCase(args.jwt_header, "RS")
                  \/ ContainsAnyCase(args.jwt_header, "ES")
               THEN Pubkey
          ELSE Other

\* C7: for an explicit identifier the class ignores the header string: HS256,
\* HS384 and HS512 give Hmac and None gives Other, also when the string holds
\* an RS or ES marker.
C7_ExplicitIgnoresHeader ==
  op = "class" =>
    /\ args.self \in HmacTypes => ret = Hmac
    /\ args.self = None => ret = Other

C7_Witness ==
  /\ op = "class"
  /\ args.self = Hs256
  /\ args.jwt_header = "RS256"
  /\ ret = Hmac

\* C8: with None, calc_signature returns Ok of the empty string, for every
\* signing input, secret and original signature.
C8_NoneIsEmpty ==
  (op = "calc_signature" /\ args.hash_type = None) => ret = Ok("")

C8_Witness ==
  /\ op = "calc_signature"
  /\ args.hash_type = None
  /\ args.payload = PayloadHs256
  /\ args.secret = "password"
  /\ args.original_signature = "c2ln"
  /\ ret = Ok("")

\* C10: whenever from_header resolves an alg to Some(id), the class of Auto
\* (the scan of the alg) equals the class of id.
C10_ResolverClassifierAgree ==
  (op = "from_header" /\ ret[1] = "Some") =>
    class(Auto, args.alg) = class(ret[2], args.alg)

====
